---- MODULE Spec2Model ----
(***************************************************************************)
(* A model of src/get_imagery.py: the three public functions               *)
(* query_imagery_stac, calculate_coverage_ratio and get_imagery (with its  *)
(* helper download_scenes), each run from an idle interpreter by one call. *)
(*                                                                         *)
(* Python values that the code tests for truthiness are records            *)
(* [none, v]: none = TRUE is None, otherwise v is the sequence of the      *)
(* value's pieces (the elements of a list, the keys of a dict, the pieces  *)
(* of a string, so that s + t is v(s) \o v(t) and "" is << >>).            *)
(* Geometries are finite sets of unit cells; a float quotient n / d is     *)
(* kept as the pair <<n, d>>.                                              *)
(***************************************************************************)
EXTENDS Integers, Sequences, FiniteSets

VARIABLES
    pc,            \* position of the interpreter
    caller,        \* the function the client called
    exc,           \* the exception that ended the call, or "none"
    printed,       \* what print() has written, in order
    qargs,         \* arguments of the running query_imagery_stac call
    query_return,  \* what query_imagery_stac returned
    queryCalls,    \* calls of query_imagery_stac
    opens,         \* Client.open calls (network)
    searches,      \* stac.search calls (network)
    fetches,       \* item_collection() calls (network)
    args,          \* arguments of the running get_imagery call
    gdf_buff,      \* the buffered point: << >> before it is built, <<cells>> after
    items,         \* list(query_return.item_collection())
    QA_items,      \* the filtered list
    chosen_item,   \* << >> before the choice, <<item>> after
    idx,           \* position of the for loop in target_asset_keys (1-based)
    ds,            \* arguments of the running download_scenes call
    stac_url,      \* download_scenes' local: << >> unbound, <<url>> bound
    dsCalls,       \* download_scenes calls, in order
    signCalls,     \* sign_url calls, in order
    warpCalls,     \* subprocess.run(gdalwarp) calls, in order
    files,         \* output files gdalwarp has written
    scene_geom,    \* arguments of the running calculate_coverage_ratio call
    aoi_geom,
    ratio          \* its result: << >> before, <<n, d>> after

vars == <<pc, caller, exc, printed, qargs, query_return, queryCalls, opens,
          searches, fetches, args, gdf_buff, items, QA_items, chosen_item, idx,
          ds, stac_url, dsCalls, signCalls, warpCalls, files, scene_geom,
          aoi_geom, ratio>>

queryVars == <<qargs, query_return, queryCalls, opens, searches, fetches>>
imageryVars == <<args, gdf_buff, items, QA_items, chosen_item, idx, ds,
                 stac_url, dsCalls, signCalls, warpCalls, files>>
coverageVars == <<scene_geom, aoi_geom, ratio>>

----------------------------------------------------------------------------
(* Bounds *)

MaxItems == 2      \* longest candidate list the catalog returns
MaxKeys == 2       \* longest target_asset_keys
NumCells == 3      \* cells of the plane calculate_coverage_ratio is tried on

----------------------------------------------------------------------------
(* Python values *)

PyNone == [none |-> TRUE, v |-> << >>]
Py(s) == [none |-> FALSE, v |-> s]

\* bool(x) of None, a str, a list or a dict
Truthy(x) == ~x.none /\ Len(x.v) > 0

\* the inputs the functions are tried on
AssetKeys == {"red", "nir", "swir"}
KeyLists == UNION {[1..n -> AssetKeys] : n \in 0..MaxKeys}
CollectionIds == {"", "landsat-c2-l2"}
Queries == {PyNone}
OutDirs == {"out"}
Prefixes == {"site_40.0_-105.0_500m_"}
Lats == {0}
Lons == {0}
Radii == {1, 2}
StartDates == {"2020-01-01"}
EndDates == {"2020-12-31"}

IntersectsArgs == {PyNone, Py(<< >>), Py(<<"type", "coordinates">>)}
DatetimeArgs == {PyNone, Py(<< >>), Py(<<"2020-01-01", "/", "2020-12-31">>)}
CollectionsArgs == {PyNone, Py(<< >>), Py(<<"landsat-c2-l2">>)}
QueryArgs == {PyNone, Py(<< >>), Py(<<"eo:cloud_cover">>)}

\* the candidates a catalog can answer with: properties are key/value pairs,
\* assets the keys of the asset mapping; the id is the position in the answer
PropertySets == {{}, {<<"banding_issues", TRUE>>}, {<<"banding_issues", FALSE>>}}
AssetMappings == {{"red", "nir"}, {"red", "nir", "swir"}}
ItemKinds == [properties : PropertySets, assets : AssetMappings]
Catalogs ==
    UNION {{[i \in 1..n |-> [id |-> i,
                              properties |-> f[i].properties,
                              assets |-> f[i].assets]] : f \in [1..n -> ItemKinds]}
           : n \in 0..MaxItems}

Cells == 1..NumCells
Geometries == SUBSET Cells

NoArgs == [out_dir |-> "", lat |-> 0, lon |-> 0, radius |-> 0,
           collection_id |-> "", query |-> PyNone, target_asset_keys |-> << >>,
           start_query |-> "", end_query |-> "", prefix |-> ""]
NoQArgs == [intersects |-> PyNone, datetime |-> PyNone,
            collections |-> PyNone, query |-> PyNone]
NoDs == [extent |-> <<0, 0, 0, 0>>, item |-> 0, target_asset_key |-> "",
         output_file |-> << >>]

----------------------------------------------------------------------------
(* Pure parts of the code *)

\* the pieces of a str: "" has none
Str(s) == IF s = "" THEN << >> ELSE <<s>>

\* line 51: intersects or datetime or collections or query is not None
QueryGuardTruthyQuery(intersects, datetime, collections, query) ==
    Truthy(intersects) \/ Truthy(datetime) \/ Truthy(collections) \/ Truthy(query)
QueryGuard(intersects, datetime, collections, query) ==
    Truthy(intersects) \/ Truthy(datetime) \/ Truthy(collections) \/ ~query.none

\* lines 83-88; areas are cell counts, the quotient n / d is <<n, d>>
Area(geom) == Cardinality(geom)
calculate_coverage_ratio_no_guard(scene, aoi) ==
    <<Area(scene \cap aoi), Area(aoi)>>
calculate_coverage_ratio(scene, aoi) ==
    LET intersection == scene \cap aoi
    IN  IF Area(aoi) = 0 THEN <<1, 1>> ELSE <<Area(intersection), Area(aoi)>>

\* lines 186-192: the point buffered by radius, as cells around (lon, lat)
Abs(n) == IF n < 0 THEN -n ELSE n
Buffer(lon, lat, radius) ==
    {c \in ((lon - radius)..(lon + radius)) \X ((lat - radius)..(lat + radius)) :
        Abs(c[1] - lon) + Abs(c[2] - lat) <= radius}

\* line 195: mapping(geom) is a dict with the keys type and coordinates
Mapping(geom) == Py(<<"type", "coordinates">>)

\* line 223: total_bounds is [minx, miny, maxx, maxy]
MinOf(S) == CHOOSE m \in S : \A n \in S : m <= n
MaxOf(S) == CHOOSE m \in S : \A n \in S : m >= n
TotalBounds(geom) ==
    <<MinOf({c[1] : c \in geom}), MinOf({c[2] : c \in geom}),
      MaxOf({c[1] : c \in geom}), MaxOf({c[2] : c \in geom})>>

\* line 199: collections=[collection_id]
CollectionsArg(collection_id) == Py(<<collection_id>>)

\* line 202: start_query + "/" + end_query
DatetimeArg(start_query, end_query) ==
    Py(Str(start_query) \o <<"/">> \o Str(end_query))

\* lines 213-214: "banding_issues" not in item.properties
\*                or item.properties["banding_issues"] != True
HasProperty(item, key) == \E p \in item.properties : p[1] = key
Property(item, key) == (CHOOSE p \in item.properties : p[1] = key)[2]
IsEligibleFlagOnly(item) ==
    HasProperty(item, "banding_issues") /\ Property(item, "banding_issues") # TRUE
IsEligible(item) ==
    \/ ~HasProperty(item, "banding_issues")
    \/ Property(item, "banding_issues") # TRUE

\* line 226: out_dir + "/" + prefix + target_asset_key + ".tif"
OutputFileNoPrefix(out_dir, prefix, target_asset_key) ==
    Str(out_dir) \o <<"/">> \o Str(target_asset_key) \o <<".tif">>
OutputFile(out_dir, prefix, target_asset_key) ==
    Str(out_dir) \o <<"/">> \o Str(prefix) \o Str(target_asset_key) \o <<".tif">>

\* asset.href of an item's asset, and what sign_url makes of it
Href(item, asset_key) == [item |-> item.id, asset |-> asset_key, signed |-> FALSE]
SignUrl(href) == [href EXCEPT !.signed = TRUE]

\* lines 137-140: a non-zero return code is printed, nothing is raised
WarpRaisesOnError(returncode) == returncode # 0
WarpRaises(returncode) == FALSE
WarpMessage(returncode) ==
    IF returncode # 0 THEN "Error running gdalwarp:"
    ELSE "gdalwarp completed successfully:"

\* lines 198-206: no try/except around the catalog calls, a failure goes up
CatalogFailureSwallowed(ok) == FALSE
CatalogFailureRaises(ok) == ~ok

\* line 221: the for loop moves to the next key whatever the call did
NextIdxRetry(i, returncode) == IF returncode # 0 THEN i ELSE i + 1
NextIdx(i, returncode) == i + 1

GuardMessage == "Must set at least one of the following parameters: collections, intersects, datetime or query before continuing."

----------------------------------------------------------------------------
(* The interpreter: idle until a client calls one of the three functions *)

Init ==
    /\ pc = "idle"
    /\ caller = "none"
    /\ exc = "none"
    /\ printed = << >>
    /\ qargs = NoQArgs
    /\ query_return = "unset"
    /\ queryCalls = 0
    /\ opens = << >>
    /\ searches = 0
    /\ fetches = << >>
    /\ args = NoArgs
    /\ gdf_buff = << >>
    /\ items = << >>
    /\ QA_items = << >>
    /\ chosen_item = << >>
    /\ idx = 1
    /\ ds = NoDs
    /\ stac_url = << >>
    /\ dsCalls = << >>
    /\ signCalls = << >>
    /\ warpCalls = << >>
    /\ files = {}
    /\ scene_geom = {}
    /\ aoi_geom = {}
    /\ ratio = << >>

\* an exception nobody catches ends the call
Raise(e) == pc' = "raised" /\ exc' = e

(* ---- calculate_coverage_ratio, lines 66-88 ---- *)

CallCoverage ==
    /\ pc = "idle"
    /\ \E scene \in Geometries, aoi \in Geometries :
          /\ scene_geom' = scene
          /\ aoi_geom' = aoi
    /\ caller' = "calculate_coverage_ratio"
    /\ pc' = "cov_body"
    /\ UNCHANGED <<exc, printed, ratio, queryVars, imageryVars>>

CoverageBody ==
    /\ pc = "cov_body"
    /\ ratio' = calculate_coverage_ratio(scene_geom, aoi_geom)
    /\ pc' = "returned"
    /\ UNCHANGED <<caller, exc, printed, scene_geom, aoi_geom, queryVars, imageryVars>>

(* ---- query_imagery_stac, lines 20-63 ---- *)

\* a client calls query_imagery_stac directly
CallQuery ==
    /\ pc = "idle"
    /\ \E i \in IntersectsArgs, d \in DatetimeArgs,
          c \in CollectionsArgs, q \in QueryArgs :
          qargs' = [intersects |-> i, datetime |-> d, collections |-> c, query |-> q]
    /\ caller' = "query_imagery_stac"
    /\ queryCalls' = queryCalls + 1
    /\ pc' = "q_open"
    /\ UNCHANGED <<exc, printed, query_return, opens, searches, fetches,
                   imageryVars, coverageVars>>

\* line 49: Client.open reads the catalog's root over the network
ClientOpen ==
    /\ pc = "q_open"
    /\ \E ok \in BOOLEAN :
          /\ opens' = Append(opens, ok)
          /\ IF CatalogFailureRaises(ok)
                THEN Raise("CatalogError")
                ELSE pc' = "q_guard" /\ exc' = exc
    /\ UNCHANGED <<caller, printed, qargs, query_return, queryCalls, searches,
                   fetches, imageryVars, coverageVars>>

\* lines 51-63: the guard, then either the search or the printed message;
\* print() returns None, and that is what the else branch returns
QueryBody ==
    /\ pc = "q_guard"
    /\ IF QueryGuard(qargs.intersects, qargs.datetime, qargs.collections, qargs.query)
          THEN /\ searches' = searches + 1
               /\ query_return' = "ItemSearch"
               /\ printed' = printed
          ELSE /\ printed' = Append(printed, GuardMessage)
               /\ query_return' = "None"
               /\ searches' = searches
    /\ pc' = IF caller = "get_imagery" THEN "gi_items" ELSE "returned"
    /\ UNCHANGED <<caller, exc, qargs, queryCalls, opens, fetches,
                   imageryVars, coverageVars>>

(* ---- get_imagery, lines 143-227 ---- *)

CallGetImagery ==
    /\ pc = "idle"
    /\ \E out_dir \in OutDirs, lat \in Lats, lon \in Lons, radius \in Radii,
          collection_id \in CollectionIds, query \in Queries,
          target_asset_keys \in KeyLists, start_query \in StartDates,
          end_query \in EndDates, prefix \in Prefixes :
          args' = [out_dir |-> out_dir, lat |-> lat, lon |-> lon,
                   radius |-> radius, collection_id |-> collection_id,
                   query |-> query, target_asset_keys |-> target_asset_keys,
                   start_query |-> start_query, end_query |-> end_query,
                   prefix |-> prefix]
    /\ caller' = "get_imagery"
    /\ pc' = "gi_aoi"
    /\ UNCHANGED <<exc, printed, queryVars, gdf_buff, items, QA_items,
                   chosen_item, idx, ds, stac_url, dsCalls, signCalls,
                   warpCalls, files, coverageVars>>

\* lines 186-195: the point, buffered by radius
BuildAoi ==
    /\ pc = "gi_aoi"
    /\ gdf_buff' = <<Buffer(args.lon, args.lat, args.radius)>>
    /\ pc' = "gi_query"
    /\ UNCHANGED <<caller, exc, printed, queryVars, args, items, QA_items,
                   chosen_item, idx, ds, stac_url, dsCalls, signCalls,
                   warpCalls, files, coverageVars>>

\* lines 198-203: the call of query_imagery_stac
QueryFromGetImagery ==
    /\ pc = "gi_query"
    /\ qargs' = [collections |-> CollectionsArg(args.collection_id),
                 query |-> args.query,
                 intersects |-> Mapping(gdf_buff[1]),
                 datetime |-> DatetimeArg(args.start_query, args.end_query)]
    /\ queryCalls' = queryCalls + 1
    /\ pc' = "q_open"
    /\ UNCHANGED <<caller, exc, printed, query_return, opens, searches, fetches,
                   imageryVars, coverageVars>>

\* line 206: items = list(query_return.item_collection()); the pages are read
\* over the network here, and None has no item_collection
FetchItems ==
    /\ pc = "gi_items"
    /\ IF query_return = "None"
          THEN /\ Raise("AttributeError")
               /\ UNCHANGED <<fetches, items>>
          ELSE \E ok \in BOOLEAN, answer \in Catalogs :
                  /\ fetches' = Append(fetches, ok)
                  /\ items' = IF ok THEN answer ELSE << >>
                  /\ IF CatalogFailureRaises(ok)
                        THEN Raise("CatalogError")
                        ELSE pc' = "gi_filter" /\ exc' = exc
    /\ UNCHANGED <<caller, printed, qargs, query_return, queryCalls, opens,
                   searches, args, gdf_buff, QA_items, chosen_item, idx, ds,
                   stac_url, dsCalls, signCalls, warpCalls, files, coverageVars>>

\* lines 210-215: the list comprehension keeps the order of items
FilterItems ==
    /\ pc = "gi_filter"
    /\ QA_items' = SelectSeq(items, IsEligible)
    /\ pc' = "gi_choose"
    /\ UNCHANGED <<caller, exc, printed, queryVars, args, gdf_buff, items,
                   chosen_item, idx, ds, stac_url, dsCalls, signCalls,
                   warpCalls, files, coverageVars>>

\* line 218: chosen_item = QA_items[0]; an empty list has no element 0
ChooseItem ==
    /\ pc = "gi_choose"
    /\ IF Len(QA_items) = 0
          THEN Raise("IndexError") /\ chosen_item' = chosen_item
          ELSE /\ chosen_item' = <<QA_items[1]>>
               /\ pc' = "gi_loop"
               /\ exc' = exc
    /\ UNCHANGED <<caller, printed, queryVars, args, gdf_buff, items, QA_items,
                   idx, ds, stac_url, dsCalls, signCalls, warpCalls, files,
                   coverageVars>>

\* lines 221-227: the next key, if any, and the call of download_scenes
LoopHead ==
    /\ pc = "gi_loop"
    /\ IF idx > Len(args.target_asset_keys)
          THEN /\ pc' = "returned"
               /\ UNCHANGED <<ds, stac_url, dsCalls>>
          ELSE LET target_asset_key == args.target_asset_keys[idx]
                   call == [extent |-> TotalBounds(gdf_buff[1]),
                            item |-> chosen_item[1].id,
                            target_asset_key |-> target_asset_key,
                            output_file |-> OutputFile(args.out_dir, args.prefix,
                                                       target_asset_key)]
               IN  /\ ds' = call
                   /\ dsCalls' = Append(dsCalls,
                          [entry |-> idx, extent |-> call.extent,
                           item |-> call.item,
                           target_asset_key |-> call.target_asset_key,
                           output_file |-> call.output_file])
                   /\ stac_url' = << >>
                   /\ pc' = "ds_sign"
    /\ UNCHANGED <<caller, exc, printed, queryVars, args, gdf_buff, items,
                   QA_items, chosen_item, idx, signCalls, warpCalls, files,
                   coverageVars>>

(* ---- download_scenes, lines 91-140 ---- *)

ChosenItem == chosen_item[1]

\* lines 113-116: the loop over item.assets.items() signs the asset whose key
\* is the target (a dict has each key once); stac_url is bound only then
SignAssets ==
    /\ pc = "ds_sign"
    /\ IF ds.target_asset_key \in ChosenItem.assets
          THEN \E ok \in BOOLEAN :
                  LET href == Href(ChosenItem, ds.target_asset_key)
                  IN  /\ signCalls' = Append(signCalls,
                             [entry |-> idx, href |-> href, ok |-> ok])
                      /\ IF ok
                            THEN /\ stac_url' = <<SignUrl(href)>>
                                 /\ pc' = "ds_warp"
                                 /\ exc' = exc
                            ELSE /\ Raise("SignError")
                                 /\ stac_url' = stac_url
          ELSE /\ pc' = "ds_warp"
               /\ UNCHANGED <<exc, stac_url, signCalls>>
    /\ UNCHANGED <<caller, printed, queryVars, args, gdf_buff, items, QA_items,
                   chosen_item, idx, ds, dsCalls, warpCalls, files, coverageVars>>

\* lines 119-140: the command reads stac_url (unbound if no asset matched),
\* gdalwarp runs, its return code is printed, and the call returns to the loop
RunWarp ==
    /\ pc = "ds_warp"
    /\ IF stac_url = << >>
          THEN /\ Raise("UnboundLocalError")
               /\ UNCHANGED <<printed, idx, warpCalls, files>>
          ELSE \E returncode \in {0, 1} :
                  LET command == [te |-> ds.extent, t_srs |-> "EPSG:4326",
                                  vsicurl |-> stac_url[1],
                                  output_file |-> ds.output_file]
                  IN  /\ warpCalls' = Append(warpCalls,
                             [entry |-> idx, command |-> command,
                              returncode |-> returncode])
                      /\ files' = IF returncode = 0
                                     THEN files \cup {ds.output_file}
                                     ELSE files
                      /\ IF WarpRaises(returncode)
                            THEN /\ Raise("CalledProcessError")
                                 /\ UNCHANGED <<printed, idx>>
                            ELSE /\ printed' = Append(printed, WarpMessage(returncode))
                                 /\ idx' = NextIdx(idx, returncode)
                                 /\ pc' = "gi_loop"
                                 /\ exc' = exc
    /\ UNCHANGED <<caller, queryVars, args, gdf_buff, items, QA_items,
                   chosen_item, ds, stac_url, dsCalls, signCalls, coverageVars>>

----------------------------------------------------------------------------

Next ==
    \/ CallCoverage
    \/ CoverageBody
    \/ CallQuery
    \/ ClientOpen
    \/ QueryBody
    \/ CallGetImagery
    \/ BuildAoi
    \/ QueryFromGetImagery
    \/ FetchItems
    \/ FilterItems
    \/ ChooseItem
    \/ LoopHead
    \/ SignAssets
    \/ RunWarp

Spec == Init /\ [][Next]_vars

Done == pc \in {"returned", "raised"}

----------------------------------------------------------------------------
(* What the claims speak of, said without the operators of the model *)

Unset(x) == x = PyNone
AllUnset ==
    /\ Unset(qargs.intersects) /\ Unset(qargs.datetime)
    /\ Unset(qargs.collections) /\ Unset(qargs.query)
NoNetworkCall == opens = << >> /\ searches = 0 /\ fetches = << >>
NoDownload == dsCalls = << >> /\ signCalls = << >> /\ warpCalls = << >> /\ files = {}

Flagged(item) == <<"banding_issues", TRUE>> \in item.properties
Eligible(item) == ~Flagged(item)
SearchAnswered == fetches = <<TRUE>>
Keys == args.target_asset_keys
ExpectedPath(key) == <<args.out_dir, "/", args.prefix, key, ".tif">>
ExpectedBox == <<args.lon - args.radius, args.lat - args.radius,
                 args.lon + args.radius, args.lat + args.radius>>
AllKeysPresent == \A i \in 1..Len(Keys) : Keys[i] \in chosen_item[1].assets
AllSignedOk == \A i \in 1..Len(signCalls) : signCalls[i].ok
AllWarpsOk == \A i \in 1..Len(warpCalls) : warpCalls[i].returncode = 0
WarpsOf(e) == {i \in 1..Len(warpCalls) : warpCalls[i].entry = e}
SignsOf(e) == {i \in 1..Len(signCalls) : signCalls[i].entry = e}
CallsOf(e) == {i \in 1..Len(dsCalls) : dsCalls[i].entry = e}
CatalogFailed ==
    \/ \E i \in 1..Len(opens) : ~opens[i]
    \/ \E i \in 1..Len(fetches) : ~fetches[i]

----------------------------------------------------------------------------
\* C1: a call of query_imagery_stac with collections, intersects, datetime and
\* query all unset makes no network call at any point, and ends by raising
\* InvalidQueryError.
C1_UnsetQueryFailsFast ==
    (caller = "query_imagery_stac" /\ AllUnset) =>
        /\ NoNetworkCall
        /\ Done => (pc = "raised" /\ exc = "InvalidQueryError")

\* C2: when the catalog's answer holds an eligible candidate, the filtered list
\* is the eligible candidates in catalog order and the chosen item is the
\* eligible candidate of smallest index, every candidate before it being
\* flagged banding_issues = true.
C2_FirstEligibleChosen ==
    (caller = "get_imagery" /\ SearchAnswered
       /\ \E k \in 1..Len(items) : Eligible(items[k])) =>
        /\ pc \notin {"gi_filter"} =>
              /\ \A k \in 1..Len(items) :
                    Eligible(items[k]) <=> \E j \in 1..Len(QA_items) : QA_items[j] = items[k]
              /\ \A i, j \in 1..Len(QA_items) : i < j => QA_items[i].id < QA_items[j].id
        /\ pc \notin {"gi_filter", "gi_choose"} =>
              /\ chosen_item # << >>
              /\ \E k \in 1..Len(items) :
                    /\ chosen_item[1] = items[k]
                    /\ Eligible(items[k])
                    /\ \A j \in 1..(k - 1) : Flagged(items[j])

C2_Witness ==
    /\ Len(items) = 2 /\ Flagged(items[1]) /\ Eligible(items[2])
    /\ chosen_item = <<items[2]>>

\* C3: when the candidate set is empty or every candidate is flagged, the run
\* ends normally (no exception) and has made no asset download.
C3_NoEligibleCandidateOutcome ==
    (caller = "get_imagery" /\ SearchAnswered /\ Done
       /\ \A k \in 1..Len(items) : Flagged(items[k])) =>
        /\ pc = "returned" /\ exc = "none"
        /\ NoDownload

\* C4: a requested key missing from the chosen scene's assets fails alone,
\* with no warp for it: every other requested key present in the assets,
\* before or after it, still gets its warp (signing permitting).
C4_MissingAssetIsolated ==
    (caller = "get_imagery" /\ Done /\ chosen_item # << >> /\ AllSignedOk) =>
        \A e \in 1..Len(Keys) :
            IF Keys[e] \in chosen_item[1].assets
               THEN \E i \in WarpsOf(e) :
                       warpCalls[i].returncode = 0 => ExpectedPath(Keys[e]) \in files
               ELSE WarpsOf(e) = {}

\* C5 as stated: a run that returns, with an eligible candidate holding every
\* requested key, has called the retriever once per entry, in order, with the
\* chosen scene, the AOI box and the path, and has written exactly the files
\* out_dir/prefix+key.tif of the requested keys.
C5_AsStated ==
    (caller = "get_imagery" /\ pc = "returned" /\ chosen_item # << >>
       /\ AllKeysPresent) =>
        /\ Len(dsCalls) = Len(Keys)
        /\ \A i \in 1..Len(dsCalls) :
              dsCalls[i] = [entry |-> i, extent |-> ExpectedBox,
                            item |-> chosen_item[1].id,
                            target_asset_key |-> Keys[i],
                            output_file |-> ExpectedPath(Keys[i])]
        /\ files = {ExpectedPath(Keys[i]) : i \in 1..Len(Keys)}

\* C5 amended: with an eligible candidate holding every requested key, the
\* retriever calls are a prefix of target_asset_keys in list order (all of it
\* once the run has returned), each with the chosen scene, the AOI box
\* [minX, minY, maxX, maxY] and the path out_dir/prefix+key.tif; the files
\* written are exactly the paths of the entries whose warp exited 0, hence
\* exactly one per requested key when the run returned and every warp exited 0.
C5_RetrieverCalls ==
    (caller = "get_imagery" /\ chosen_item # << >> /\ AllKeysPresent) =>
        /\ Len(dsCalls) <= Len(Keys)
        /\ pc = "returned" => Len(dsCalls) = Len(Keys)
        /\ \A i \in 1..Len(dsCalls) :
              dsCalls[i] = [entry |-> i, extent |-> ExpectedBox,
                            item |-> chosen_item[1].id,
                            target_asset_key |-> Keys[i],
                            output_file |-> ExpectedPath(Keys[i])]
        /\ \A i \in 1..Len(warpCalls) :
              /\ warpCalls[i].command.te = ExpectedBox
              /\ warpCalls[i].command.output_file = ExpectedPath(Keys[warpCalls[i].entry])
        /\ files = {ExpectedPath(Keys[warpCalls[i].entry]) :
                       i \in {j \in 1..Len(warpCalls) : warpCalls[j].returncode = 0}}
        /\ (pc = "returned" /\ AllWarpsOk) =>
              files = {ExpectedPath(Keys[i]) : i \in 1..Len(Keys)}

C5_Witness ==
    /\ pc = "returned" /\ Keys = <<"red", "nir">> /\ args.radius = 2
    /\ files = {ExpectedPath("red"), ExpectedPath("nir")}

\* C6: a non-zero exit status of gdalwarp is printed and never raised: the run
\* never ends at a warp, every failed warp is followed by the attempt of the
\* next key if there is one, and when nothing but warps failed the run returns
\* with one warp per requested key.
C6_WarpFailureOnlyLogged ==
    caller = "get_imagery" =>
        /\ pc = "raised" => WarpsOf(idx) = {}
        /\ \A i \in 1..Len(warpCalls) :
              (warpCalls[i].returncode # 0 /\ Done) =>
                  \/ warpCalls[i].entry = Len(Keys) /\ pc = "returned"
                  \/ CallsOf(warpCalls[i].entry + 1) # {}
        /\ Cardinality({i \in 1..Len(printed) : printed[i] = "Error running gdalwarp:"})
              = Cardinality({i \in 1..Len(warpCalls) : warpCalls[i].returncode # 0})
        /\ pc = "returned" => Len(warpCalls) = Len(Keys)
        /\ (Done /\ chosen_item # << >> /\ AllKeysPresent /\ AllSignedOk) =>
              /\ pc = "returned"
              /\ \A e \in 1..Len(Keys) : Cardinality(WarpsOf(e)) = 1

C6_Witness ==
    /\ pc = "returned" /\ Len(Keys) = 2 /\ Len(warpCalls) = 2
    /\ warpCalls[1].returncode # 0 /\ warpCalls[2].returncode = 0

\* C7: the coverage ratio is area(scene /\ aoi) / area(aoi) when the aoi has
\* area, and 1.0 when it has none (no division by zero); it lies in [0, 1],
\* is 1.0 for scene = aoi, 0.0 for disjoint geometries, and nothing else of
\* the state is touched.
C7_CoverageRatio ==
    (caller = "calculate_coverage_ratio" /\ ratio # << >>) =>
        LET n == ratio[1]
            d == ratio[2]
            a == Cardinality(aoi_geom)
            both == Cardinality({c \in Cells : c \in scene_geom /\ c \in aoi_geom})
        IN  /\ d > 0
            /\ a > 0 => n * a = both * d
            /\ a = 0 => n = d
            /\ 0 <= n /\ n <= d
            /\ (scene_geom = aoi_geom /\ a > 0) => n = d
            /\ (scene_geom \cap aoi_geom = {} /\ a > 0) => n = 0
            /\ printed = << >> /\ exc = "none" /\ NoNetworkCall /\ NoDownload

C7_Witness ==
    /\ pc = "returned" /\ aoi_geom = {} /\ scene_geom # {} /\ ratio = <<1, 1>>

\* C8: a failure of the catalog (opening it or reading the search's items)
\* ends the call with the catalog's error: nothing is selected, nothing is
\* downloaded, and a search that answered with no candidate never ends so.
C8_CatalogFailurePropagates ==
    /\ CatalogFailed =>
          /\ pc = "raised" /\ exc = "CatalogError"
          /\ QA_items = << >> /\ chosen_item = << >>
          /\ NoDownload
    /\ (caller = "get_imagery" /\ SearchAnswered /\ items = << >>) =>
          exc # "CatalogError"

C8_Witness ==
    /\ caller = "get_imagery" /\ fetches = <<FALSE>> /\ pc = "raised"

\* C9: in a run of get_imagery the AOI is built before the one call of the
\* catalog search, the selection follows the answered search, no signing or
\* warp happens before a scene is chosen, and the search, and for each entry
\* of target_asset_keys the signing and the warp, are attempted at most once.
C9_StepOrderNoRetry ==
    caller = "get_imagery" =>
        /\ queryCalls <= 1 /\ Len(opens) <= 1 /\ searches <= 1 /\ Len(fetches) <= 1
        /\ queryCalls > 0 => gdf_buff # << >>
        /\ Done => queryCalls = 1
        /\ searches > 0 => opens = <<TRUE>>
        /\ fetches # << >> => searches = 1
        /\ (QA_items # << >> \/ chosen_item # << >>) => SearchAnswered
        /\ ~NoDownload => chosen_item # << >>
        /\ \A e \in 1..Len(Keys) :
              /\ Cardinality(CallsOf(e)) <= 1
              /\ Cardinality(SignsOf(e)) <= 1
              /\ Cardinality(WarpsOf(e)) <= 1
              /\ SignsOf(e) # {} => CallsOf(e) # {}
              /\ WarpsOf(e) # {} => \E i \in SignsOf(e) : signCalls[i].ok
        /\ \A i, j \in 1..Len(dsCalls) : i < j => dsCalls[i].entry < dsCalls[j].entry

C9_Witness ==
    /\ pc = "raised" /\ Len(Keys) = 2 /\ Len(signCalls) = 2
    /\ signCalls[1].ok /\ ~signCalls[2].ok /\ Len(warpCalls) = 1

\* C10: the guard of query_imagery_stac passes exactly when intersects,
\* datetime or collections is truthy or query is not None; a call from
\* get_imagery passes collections = [collection_id] and so always gets the
\* search, never the printed message and its None.
C10_GuardAlwaysPassesFromGetImagery ==
    /\ query_return # "unset" =>
          (query_return = "ItemSearch" <=>
              ~(/\ qargs.intersects \in {PyNone, Py(<< >>)}
                /\ qargs.datetime \in {PyNone, Py(<< >>)}
                /\ qargs.collections \in {PyNone, Py(<< >>)}
                /\ qargs.query = PyNone))
    /\ query_return = "None" <=> (printed # << >> /\ printed[1] = GuardMessage)
    /\ caller = "get_imagery" =>
          /\ queryCalls > 0 =>
                /\ qargs.collections = Py(<<args.collection_id>>)
                /\ Len(qargs.collections.v) = 1
          /\ query_return # "None"
          /\ exc # "AttributeError"
          /\ \A i \in 1..Len(printed) : printed[i] # GuardMessage

C10_Witness ==
    /\ caller = "get_imagery" /\ args.collection_id = "" /\ args.query = PyNone
    /\ query_return = "ItemSearch" /\ SearchAnswered
====
